---- MODULE Spec2Model ----
(***************************************************************************)
(* HTTPMiddleware (starlette/middleware/http.py): the coordinator that     *)
(* drives one request's dispatch flow (an async generator) in lockstep     *)
(* with the inner ASGI application and the downstream sink.                *)
(*                                                                         *)
(* One behaviour is one call of HTTPMiddleware.__call__.  The flow and     *)
(* the inner application are the environment: every outcome Python allows  *)
(* them is a nondeterministic choice of the corresponding action.          *)
(*                                                                         *)
(* Collaborators whose code is outside http.py are modelled by what the    *)
(* design document says of them: Response.__call__ sends a start and a     *)
(* body message to the sink it is given, MutableHeaders.update overwrites  *)
(* or appends by case-insensitive name, aclosing.__aexit__ awaits the      *)
(* flow's aclose().  The downstream sink `send` accepts every message and  *)
(* aclose() completes; the task is not cancelled in Spec.  SpecCancel adds  *)
(* the task's cancellation at each of its await points; SpecConcurrent     *)
(* adds a second sender of the inner application.                          *)
(***************************************************************************)
EXTENDS Integers, Sequences, FiniteSets, TLC

\* ------------------------------------------------------------------ bounds
\* Most messages the inner application hands to its sink in one call.
MaxAppMsgs == 2

\* ------------------------------------------------------------------ values
None == "None"
Responses == {"R1", "R2"}              \* responses a flow may yield
YieldValues == {None} \cup Responses   \* Optional[Response]
ScopeTypes == {"http", "websocket"}
StartType == "http.response.start"
BodyType == "http.response.body"

\* Exceptions; `of` names the exception a RuntimeError message embeds.
Err(k) == [kind |-> k, of |-> "-"]
NoErr == Err("-")
AppErrors == {Err("E1"), Err("E2")}    \* Exceptions the inner application raises
BaseErrors == {Err("B1")}              \* a BaseException that is no Exception
FlowErrors == {Err("F1")}              \* raised by the flow's own code
Cancelled == Err("CancelledError")     \* the task's cancellation, a BaseException
NotImplemented == Err("NotImplementedError")
StopAsyncIteration == Err("StopAsyncIteration")
YieldOnceError == Err("RuntimeError: dispatch() should yield exactly once")
NoResponseError == Err("RuntimeError: No response returned.")
SwallowedError(exc) ==
  [kind |-> "RuntimeError: dispatch() handled exception, but no response was returned",
   of |-> exc.kind]

\* How a call ends.
Returned == [tag |-> "return", err |-> NoErr]
Raised(e) == [tag |-> "raise", err |-> e]
Running == [tag |-> "none", err |-> NoErr]

\* ----------------------------------------------------------------- headers
\* Header names with their case; Lower is bytes.lower() on them.
Lower(n) == IF n = "A" THEN "a" ELSE n
\* Header lists an inner application puts on its start message: none, names
\* in either case, and a name that occurs twice.
OrigHeaderLists ==
  { <<>>,
    << <<"A", "1">>, <<"b", "1">> >>,
    << <<"b", "1">>, <<"A", "1">>, <<"a", "3">> >> }
\* Header lists a flow can leave on the Response View (MutableHeaders keeps
\* one lower-cased entry per name the flow assigns).
ViewHeaderLists ==
  { <<>>,
    << <<"a", "2">> >>,
    << <<"b", "2">> >>,
    << <<"a", "2">>, <<"b", "2">> >>,
    << <<"b", "1">>, <<"a", "2">> >> }

Range(s) == {s[i] : i \in DOMAIN s}
Names(s) == {Lower(s[i][1]) : i \in DOMAIN s}
Min(S) == CHOOSE x \in S : \A y \in S : x <= y

\* MutableHeaders.__setitem__: overwrite the first entry of that name, drop
\* the other entries of that name, append when there is none.
RECURSIVE SetFrom(_, _, _, _, _)
SetFrom(list, i, first, key, value) ==
  IF i > Len(list) THEN <<>>
  ELSE IF i = first THEN << <<Lower(key), value>> >> \o SetFrom(list, i + 1, first, key, value)
  ELSE IF Lower(list[i][1]) = Lower(key) THEN SetFrom(list, i + 1, first, key, value)
  ELSE << list[i] >> \o SetFrom(list, i + 1, first, key, value)

SetItem(list, key, value) ==
  LET found == {i \in DOMAIN list : Lower(list[i][1]) = Lower(key)}
  IN IF found = {} THEN Append(list, <<Lower(key), value>>)
     ELSE SetFrom(list, 1, Min(found), key, value)

\* MutableHeaders.update(other): one __setitem__ per item of other, in order.
RECURSIVE Update(_, _)
Update(list, other) ==
  IF other = <<>> THEN list
  ELSE Update(SetItem(list, Head(other)[1], Head(other)[2]), Tail(other))

\* ---------------------------------------------------------------- messages
StartMsg(status, headers, resp) ==
  [type |-> StartType, status |-> status, headers |-> headers, resp |-> resp]
BodyMsg(resp) ==
  [type |-> BodyType, status |-> 0, headers |-> <<>>, resp |-> resp]
\* Messages the inner application may hand to its sink.
AppMessages ==
  {StartMsg(200, h, "app") : h \in OrigHeaderLists}
    \cup {StartMsg(404, <<>>, "app"), BodyMsg("app")}
NoMsg == [type |-> "-", status |-> 0, headers |-> <<>>, resp |-> "-"]

\* Response.__call__(scope, receive, send): a start and a body message.
StatusOf(r) == IF r = "R1" THEN 200 ELSE 404
ResponseMessages(r) == << StartMsg(StatusOf(r), <<>>, r), BodyMsg(r) >>

\* The Response View: Response(status_code=message["status"]) with its
\* raw_headers cleared.
NoView == [status |-> 0, headers |-> <<>>]
NewView(message) == [status |-> message.status, headers |-> <<>>]

\* ------------------------------------------------------------------- state
VARIABLES
  scopeType,        \* scope["type"] of the request
  dispatchArg,      \* TRUE when a dispatch function was given to __init__
  overridden,       \* TRUE when a subclass overrides the dispatch method
  dispatch_func,    \* self.dispatch_func as __init__ set it
  pc,               \* where the request's single task is
  pending,          \* how the `async with` body was left, while the flow closes
  outcome,          \* how __call__ ended
  flowState,        \* the async generator's state
  flowMadeBy,       \* which function produced the flow
  closeCount,       \* calls of the flow's aclose()
  sink,             \* the send callable the inner application was given
  response_started, \* the response_started set is non-empty
  msg,              \* the message wrapped_send is working on
  view,             \* the Response View of the running wrapped_send
  viewCount,        \* Response Views created
  sent,             \* messages the downstream sink (send) received
  calls,            \* calls of the inner application and of responses
  appSent,          \* messages the inner application handed to its sink
  appOutcome,       \* how the inner application's call ended
  sinkErr,          \* the exception the sink call raised into the application
  exc,              \* the exception caught at `except Exception as exc`
  injected,         \* exceptions thrown into the flow with athrow()
  flowLog,          \* the flow's resumptions and how each ended, in order
  yields            \* values the flow yielded, in order

vars == << scopeType, dispatchArg, overridden, dispatch_func, pc, pending, outcome,
           flowState, flowMadeBy, closeCount, sink, response_started, msg, view,
           viewCount, sent, calls, appSent, appOutcome, sinkErr, exc, injected,
           flowLog, yields >>

config == << scopeType, dispatchArg, overridden, dispatch_func >>
wsVars == << response_started, msg, view, viewCount >>
appVars == << sink, appSent, appOutcome, sinkErr >>
flowVars == << flowState, flowMadeBy, flowLog, yields >>

Call(callee, snk) ==
  [callee |-> callee, scope |-> scopeType, receive |-> "receive", send |-> snk]

\* ----------------------------------------------------- decisions of the code
\* __init__: self.dispatch_func = self.dispatch if dispatch is None else dispatch
InitDispatchFunc(given) == IF given THEN "dispatch argument" ELSE "self.dispatch"

\* (fault: the scope type is not looked at)
IsHandledAlways(type) == TRUE

\* __call__: if scope["type"] != "http": pass through
IsHandled(type) == type = "http"

\* __call__: aclosing(self.dispatch(scope)): the function that is called
DispatchCallee(func) == "self.dispatch"

\* (fault: the test is inverted)
IsEarlyResponseInverted(value) == value = None

\* __call__: if maybe_early_response is not None
IsEarlyResponse(value) == value # None

\* (fault: every message is taken for a start message)
IsStartAlways(message) == TRUE

\* (fault: the type is compared with a string no message has)
IsStartNever(message) == FALSE

\* wrapped_send: if message["type"] == "http.response.start"
IsStart(message) == message.type = StartType

\* (fault: response_started is not recorded before the flow is resumed)
AddStartedMissing(started) == started

\* wrapped_send: response_started.add(True), ahead of flow.asend
AddStarted(started) == TRUE

\* (fault: the view's headers are not merged into the message)
ForwardedUnmerged(message, v) == message

\* wrapped_send: headers.update(response.headers) on the message's own list,
\* then send(message)
ForwardedStart(message, v) ==
  [message EXCEPT !.headers = Update(message.headers, v.headers)]

\* (fault: the handler is `except BaseException`)
IsCaughtAll(e) == TRUE

\* __call__: `except Exception` catches Exception and its subclasses only
IsCaught(e) == e \notin BaseErrors \cup {Cancelled}

\* (fault: the response_started test is missing)
ReRaisesNever(started) == FALSE

\* __call__: except Exception as exc: if response_started: raise
ReRaises(started) == started

\* (fault: the None test is missing)
IsSwallowedNever(response) == FALSE

\* (fault: the None test is inverted)
IsSwallowedInverted(response) == response # None

\* __call__: if response is None: raise RuntimeError(...)
IsSwallowed(response) == response = None

\* (fault: the flow's exception is wrapped instead of re-raised)
ReraisedWrapped(e) == SwallowedError(e)

\* __call__: except Exception: raise (what flow.athrow raised goes on as it is)
Reraised(e) == e

\* (fault: the test is inverted)
IsNoResponseInverted(started) == started

\* __call__: if not response_started: raise RuntimeError("No response returned.")
IsNoResponse(started) == ~started

\* The sinks the code passes on.
PassThroughSink == "send"       \* self.app(scope, receive, send)
AppSink == "wrapped_send"       \* self.app(scope, receive, wrapped_send)
EarlySink == "send"             \* maybe_early_response(scope, receive, send)
RecoverySink == "send"          \* response(scope, receive, send)

\* (fault: a `return` inside the body skips the close)
LeaveUnclosedOnReturn(result) ==
  IF result.tag = "return"
  THEN /\ pc' = "done"
       /\ outcome' = result
       /\ pending' = pending
  ELSE /\ pc' = "aexit"
       /\ pending' = result
       /\ outcome' = outcome

\* Leaving the body of `async with aclosing(...) as flow`: __aexit__ runs next.
Leave(result) ==
  /\ pc' = "aexit"
  /\ pending' = result
  /\ outcome' = outcome

\* -------------------------------------------------------------------- Init
Init ==
  /\ scopeType \in ScopeTypes
  /\ dispatchArg \in BOOLEAN
  /\ overridden \in BOOLEAN
  /\ dispatch_func = InitDispatchFunc(dispatchArg)
  /\ pc = "call"
  /\ pending = Running
  /\ outcome = Running
  /\ flowState = "none"
  /\ flowMadeBy = "none"
  /\ closeCount = 0
  /\ sink = "none"
  /\ response_started = FALSE
  /\ msg = NoMsg
  /\ view = NoView
  /\ viewCount = 0
  /\ sent = <<>>
  /\ calls = <<>>
  /\ appSent = <<>>
  /\ appOutcome = Running
  /\ sinkErr = NoErr
  /\ exc = NoErr
  /\ injected = <<>>
  /\ flowLog = <<>>
  /\ yields = <<>>

\* A step that stays inside __call__ and moves the task to p.
Goto(p) ==
  /\ pc' = p
  /\ pending' = pending
  /\ outcome' = outcome

\* ------------------------------------------------- __call__, lines 27 to 41
\* if scope["type"] != "http": await self.app(scope, receive, send)
PassThrough ==
  /\ pc = "call"
  /\ ~IsHandled(scopeType)
  /\ Goto("passthrough")
  /\ sink' = PassThroughSink
  /\ calls' = Append(calls, Call("app", PassThroughSink))
  /\ UNCHANGED << config, flowVars, closeCount, wsVars, sent, appSent, appOutcome,
                  sinkErr, exc, injected >>

\* aclosing(self.dispatch(scope)): the base class's dispatch raises
\* NotImplementedError before there is a flow; an override makes the flow.
Dispatch ==
  /\ pc = "call"
  /\ IsHandled(scopeType)
  /\ LET callee == DispatchCallee(dispatch_func)
         maker == IF callee = "dispatch argument" THEN "dispatch argument"
                  ELSE IF overridden THEN "dispatch override" ELSE "none"
     IN IF maker = "none"
        THEN /\ pc' = "done"
             /\ outcome' = Raised(NotImplemented)
             /\ UNCHANGED << pending, flowState, flowMadeBy >>
        ELSE /\ Goto("entered")
             /\ flowState' = "created"
             /\ flowMadeBy' = maker
  /\ UNCHANGED << config, flowLog, yields, closeCount, appVars, wsVars, sent, calls,
                  exc, injected >>

\* maybe_early_response = await flow.__anext__(): the flow starts running.
AnextBegin ==
  /\ pc = "entered"
  /\ Goto("anext")
  /\ flowState' = "running"
  /\ flowLog' = Append(flowLog, "anext")
  /\ UNCHANGED << config, flowMadeBy, yields, closeCount, appVars, wsVars, sent,
                  calls, exc, injected >>

\* The flow reaches its first yield: an early response is called with the
\* original send; otherwise the inner application is called with wrapped_send.
AnextYield ==
  /\ pc = "anext"
  /\ \E v \in YieldValues :
       /\ yields' = Append(yields, v)
       /\ IF IsEarlyResponse(v)
          THEN /\ Goto("early_send")
               /\ calls' = Append(calls, Call(v, EarlySink))
               /\ sink' = sink
          ELSE /\ Goto("app")
               /\ calls' = Append(calls, Call("app", AppSink))
               /\ sink' = AppSink
  /\ flowState' = "susp1"
  /\ flowLog' = Append(flowLog, "yield")
  /\ UNCHANGED << config, flowMadeBy, closeCount, appSent, appOutcome,
                  sinkErr, wsVars, sent, exc, injected >>

\* The flow raises before its first yield, or ends without yielding
\* (StopAsyncIteration): the exception leaves the `async with` body.
AnextFail ==
  /\ pc = "anext"
  /\ \E e \in FlowErrors \cup {StopAsyncIteration} :
       /\ Leave(Raised(e))
       /\ flowLog' = Append(flowLog, IF e = StopAsyncIteration THEN "stop" ELSE "raise")
  /\ flowState' = "finished"
  /\ UNCHANGED << config, flowMadeBy, yields, closeCount, appVars, wsVars,
                  sent, calls, exc, injected >>

\* await response(scope, receive, send); return
Transmit(at) ==
  /\ pc = at
  /\ sent' = sent \o ResponseMessages(calls[Len(calls)].callee)
  /\ Leave(Returned)
  /\ UNCHANGED << config, flowVars, closeCount, appVars, wsVars, calls, exc, injected >>

TransmitEarly == Transmit("early_send")

\* ------------------------------------- the inner application, passed through
\* self.app(scope, receive, send) of line 29: the application's messages go
\* straight to send and its outcome is the outcome of __call__.
DirectSend ==
  /\ pc = "passthrough"
  /\ Len(appSent) < MaxAppMsgs
  /\ \E m \in AppMessages :
       /\ appSent' = Append(appSent, m)
       /\ sent' = Append(sent, m)
  /\ UNCHANGED << config, pc, pending, outcome, flowVars, closeCount, sink, appOutcome,
                  sinkErr, wsVars, calls, exc, injected >>

DirectEnd ==
  /\ pc = "passthrough"
  /\ \E r \in {Returned} \cup {Raised(e) : e \in AppErrors \cup BaseErrors} :
       /\ appOutcome' = r
       /\ outcome' = r
  /\ pc' = "done"
  /\ UNCHANGED << config, pending, flowVars, closeCount, sink, appSent, sinkErr,
                  wsVars, sent, calls, exc, injected >>

\* ------------------------------ the inner application, called with wrapped_send
\* The application hands a message to its sink: wrapped_send(message) starts.
AppSend ==
  /\ pc = "app"
  /\ Len(appSent) < MaxAppMsgs
  /\ \E m \in AppMessages :
       /\ appSent' = Append(appSent, m)
       /\ msg' = m
  /\ Goto("wrapped_send")
  /\ UNCHANGED << config, flowVars, closeCount, sink, appOutcome, sinkErr,
                  response_started, view, viewCount, sent, calls, exc, injected >>

\* The application returns: lines 85 and 86.
AppReturn ==
  /\ pc = "app"
  /\ appOutcome' = Returned
  /\ IF IsNoResponse(response_started)
     THEN Leave(Raised(NoResponseError))
     ELSE Leave(Returned)
  /\ UNCHANGED << config, flowVars, closeCount, sink, appSent, sinkErr, wsVars, sent,
                  calls, exc, injected >>

\* The application raises an exception of its own.
AppRaise ==
  /\ pc = "app"
  /\ \E e \in AppErrors \cup BaseErrors :
       /\ appOutcome' = Raised(e)
       /\ exc' = e
  /\ Goto("app_raised")
  /\ UNCHANGED << config, flowVars, closeCount, sink, appSent, sinkErr, wsVars, sent,
                  calls, injected >>

\* Its sink call raised: the application lets the exception propagate ...
AppPropagate ==
  /\ pc = "sink_failed"
  /\ appOutcome' = Raised(sinkErr)
  /\ exc' = sinkErr
  /\ sinkErr' = NoErr
  /\ Goto("app_raised")
  /\ UNCHANGED << config, flowVars, closeCount, sink, appSent, wsVars, sent, calls,
                  injected >>

\* ... or catches it and carries on.
AppSwallow ==
  /\ pc = "sink_failed"
  /\ sinkErr' = NoErr
  /\ Goto("app")
  /\ UNCHANGED << config, flowVars, closeCount, sink, appSent, appOutcome, wsVars,
                  sent, calls, exc, injected >>

\* ------------------------------------------------ wrapped_send, lines 43 to 60
\* A start message: response_started.add(True), the Response View is made and
\* flow.asend(response) is awaited.  asend() on a generator that has ended
\* raises StopAsyncIteration at once, which the handler passes over.
WrappedSendStart ==
  /\ pc = "wrapped_send"
  /\ IsStart(msg)
  /\ response_started' = AddStarted(response_started)
  /\ view' = NewView(msg)
  /\ viewCount' = viewCount + 1
  /\ IF flowState \in {"finished", "closed"}
     THEN /\ Goto("merge")
          /\ UNCHANGED << flowState, flowLog >>
     ELSE /\ Goto("asend")
          /\ flowState' = "running"
          /\ flowLog' = Append(flowLog, "asend")
  /\ UNCHANGED << config, flowMadeBy, yields, closeCount, appVars, msg, sent, calls,
                  exc, injected >>

\* Any other message: await send(message).
WrappedSendOther ==
  /\ pc = "wrapped_send"
  /\ ~IsStart(msg)
  /\ sent' = Append(sent, msg)
  /\ msg' = NoMsg
  /\ Goto("app")
  /\ UNCHANGED << config, flowVars, closeCount, appVars, response_started, view,
                  viewCount, calls, exc, injected >>

\* The flow, resumed with the view, sets headers on it and ends.
AsendStop ==
  /\ pc = "asend"
  /\ \E h \in ViewHeaderLists : view' = [view EXCEPT !.headers = h]
  /\ flowState' = "finished"
  /\ flowLog' = Append(flowLog, "stop")
  /\ Goto("merge")
  /\ UNCHANGED << config, flowMadeBy, yields, closeCount, appVars,
                  response_started, msg, viewCount, sent, calls, exc, injected >>

\* The flow yields again: raise RuntimeError("dispatch() should yield exactly once").
AsendYield ==
  /\ pc = "asend"
  /\ \E v \in YieldValues : yields' = Append(yields, v)
  /\ flowState' = "susp2"
  /\ flowLog' = Append(flowLog, "yield")
  /\ sinkErr' = YieldOnceError
  /\ msg' = NoMsg
  /\ view' = NoView
  /\ Goto("sink_failed")
  /\ UNCHANGED << config, flowMadeBy, closeCount, sink, appSent, appOutcome,
                  response_started, viewCount, sent, calls, exc, injected >>

\* The flow raises: the exception leaves wrapped_send.
AsendRaise ==
  /\ pc = "asend"
  /\ \E e \in FlowErrors : sinkErr' = e
  /\ flowState' = "finished"
  /\ flowLog' = Append(flowLog, "raise")
  /\ msg' = NoMsg
  /\ view' = NoView
  /\ Goto("sink_failed")
  /\ UNCHANGED << config, flowMadeBy, yields, closeCount, sink, appSent,
                  appOutcome, response_started, viewCount, sent, calls, exc, injected >>

\* headers.update(response.headers); await send(message)
MergeAndForward ==
  /\ pc = "merge"
  /\ sent' = Append(sent, ForwardedStart(msg, view))
  /\ msg' = NoMsg
  /\ view' = NoView
  /\ Goto("app")
  /\ UNCHANGED << config, flowVars, closeCount, appVars, response_started, viewCount,
                  calls, exc, injected >>

\* ------------------------------------------------- __call__, lines 64 to 83
\* The result of `await flow.athrow(exc)`: None raises the RuntimeError that
\* names exc, a response is called with the original send.
AthrowResult(response) ==
  IF IsSwallowed(response)
  THEN /\ Leave(Raised(SwallowedError(exc)))
       /\ calls' = calls
  ELSE /\ Goto("recover_send")
       /\ calls' = Append(calls, Call(response, RecoverySink))

\* An exception that is no Exception passes the handler by.  except Exception
\* as exc: re-raise once a response has started, otherwise throw exc into the
\* flow.  athrow() on a generator that has ended raises StopAsyncIteration at
\* once.
Except ==
  /\ pc = "app_raised"
  /\ IF ~IsCaught(exc) \/ ReRaises(response_started)
     THEN /\ Leave(Raised(exc))
          /\ UNCHANGED << flowState, flowLog, injected, calls >>
     ELSE /\ injected' = Append(injected, exc)
          /\ IF flowState \in {"finished", "closed"}
             THEN /\ AthrowResult(None)
                  /\ UNCHANGED << flowState, flowLog >>
             ELSE /\ Goto("athrow")
                  /\ flowState' = "running"
                  /\ flowLog' = Append(flowLog, "athrow")
                  /\ calls' = calls
  /\ UNCHANGED << config, flowMadeBy, yields, closeCount, appVars, wsVars, sent, exc >>

\* The flow catches the exception and yields a value.
AthrowYield ==
  /\ pc = "athrow"
  /\ \E v \in YieldValues :
       /\ yields' = Append(yields, v)
       /\ AthrowResult(v)
  /\ flowState' = "susp2"
  /\ flowLog' = Append(flowLog, "yield")
  /\ UNCHANGED << config, flowMadeBy, closeCount, appVars, wsVars, sent, exc,
                  injected >>

\* The flow catches the exception and ends: StopAsyncIteration, response = None.
AthrowStop ==
  /\ pc = "athrow"
  /\ AthrowResult(None)
  /\ flowState' = "finished"
  /\ flowLog' = Append(flowLog, "stop")
  /\ UNCHANGED << config, flowMadeBy, yields, closeCount, appVars, wsVars,
                  sent, exc, injected >>

\* The flow does not handle the exception, or raises another one.
AthrowRaise ==
  /\ pc = "athrow"
  /\ \E e \in {exc} \cup FlowErrors :
       /\ Leave(Raised(Reraised(e)))
       /\ flowLog' = Append(flowLog, IF e = exc THEN "reraise" ELSE "raise")
  /\ flowState' = "finished"
  /\ UNCHANGED << config, flowMadeBy, yields, closeCount, appVars, wsVars,
                  sent, calls, exc, injected >>

TransmitRecovery == Transmit("recover_send")

\* ------------------------------------------------------ leaving `async with`
\* aclosing.__aexit__: await flow.aclose(), then the body's return or
\* exception goes on to the caller.
Close ==
  /\ pc = "aexit"
  /\ closeCount' = closeCount + 1
  /\ flowState' = "closed"
  /\ flowLog' = Append(flowLog, "aclose")
  /\ outcome' = pending
  /\ pc' = "done"
  /\ UNCHANGED << config, pending, flowMadeBy, yields, appVars, wsVars, sent,
                  calls, exc, injected >>

Next ==
  \/ PassThrough \/ Dispatch \/ AnextBegin \/ AnextYield \/ AnextFail
  \/ TransmitEarly \/ DirectSend \/ DirectEnd
  \/ AppSend \/ AppReturn \/ AppRaise \/ AppPropagate \/ AppSwallow
  \/ WrappedSendStart \/ WrappedSendOther
  \/ AsendStop \/ AsendYield \/ AsendRaise \/ MergeAndForward
  \/ Except \/ AthrowYield \/ AthrowStop \/ AthrowRaise \/ TransmitRecovery
  \/ Close

Spec == Init /\ [][Next]_vars

\* ------------------------------------------------------------ cancellation
\* The task is cancelled: CancelledError is raised at the await the task is
\* suspended in, and goes up from there like any exception.

\* ... inside the flow (awaiting in __anext__, asend or athrow): it leaves the
\* flow, and from asend it leaves wrapped_send into the application.
CancelInFlow ==
  /\ pc \in {"anext", "asend", "athrow"}
  /\ flowState' = "finished"
  /\ flowLog' = Append(flowLog, "cancelled")
  /\ IF pc = "asend"
     THEN /\ sinkErr' = Cancelled
          /\ msg' = NoMsg
          /\ view' = NoView
          /\ Goto("sink_failed")
     ELSE /\ Leave(Raised(Cancelled))
          /\ UNCHANGED << sinkErr, msg, view >>
  /\ UNCHANGED << config, flowMadeBy, yields, closeCount, sink, appSent, appOutcome,
                  response_started, viewCount, sent, calls, exc, injected >>

\* ... inside the inner application, at an await of its own.
CancelInApp ==
  /\ pc = "app"
  /\ appOutcome' = Raised(Cancelled)
  /\ exc' = Cancelled
  /\ Goto("app_raised")
  /\ UNCHANGED << config, flowVars, closeCount, sink, appSent, sinkErr, wsVars, sent,
                  calls, injected >>

\* ... inside wrapped_send's `await send(message)`: the message is not sent.
CancelInWrappedSend ==
  /\ \/ pc = "merge"
     \/ pc = "wrapped_send" /\ ~IsStart(msg)
  /\ sinkErr' = Cancelled
  /\ msg' = NoMsg
  /\ view' = NoView
  /\ Goto("sink_failed")
  /\ UNCHANGED << config, flowVars, closeCount, sink, appSent, appOutcome,
                  response_started, viewCount, sent, calls, exc, injected >>

\* ... while a response is being transmitted: some of its messages were sent.
CancelInTransmit ==
  /\ pc \in {"early_send", "recover_send"}
  /\ \E k \in 0..1 :
       sent' = sent \o SubSeq(ResponseMessages(calls[Len(calls)].callee), 1, k)
  /\ Leave(Raised(Cancelled))
  /\ UNCHANGED << config, flowVars, closeCount, appVars, wsVars, calls, exc, injected >>

\* ... while __aexit__ awaits flow.aclose(): the close has been called, the
\* cancellation takes the place of the body's result.
CancelInClose ==
  /\ pc = "aexit"
  /\ closeCount' = closeCount + 1
  /\ flowState' = "closed"
  /\ flowLog' = Append(flowLog, "aclose")
  /\ outcome' = Raised(Cancelled)
  /\ pc' = "done"
  /\ UNCHANGED << config, pending, flowMadeBy, yields, appVars, wsVars, sent,
                  calls, exc, injected >>

Cancel ==
  \/ CancelInFlow \/ CancelInApp \/ CancelInWrappedSend \/ CancelInTransmit
  \/ CancelInClose

NextCancel == Next \/ Cancel

SpecCancel == Init /\ [][NextCancel]_vars

\* ------------------------------------------------------ interleaved senders
\* While the flow, resumed with the view, is suspended in an await of its
\* own, another task of the inner application hands a message to
\* wrapped_send.  A start message gets a view and flow.asend is called on the
\* running generator: the interpreter either refuses the call with
\* RuntimeError("asend(): asynchronous generator is already running"), which
\* goes to that sender, or (before that check existed) re-enters the
\* generator.  Any other message is sent on at once.
InterleavedSend ==
  /\ pc = "asend"
  /\ Len(appSent) < MaxAppMsgs
  /\ \E m \in AppMessages :
       /\ appSent' = Append(appSent, m)
       /\ IF IsStart(m)
          THEN /\ response_started' = AddStarted(response_started)
               /\ viewCount' = viewCount + 1
               /\ \E end \in { <<>>, << "refused" >> } :
                    flowLog' = flowLog \o << "asend" >> \o end
               /\ sent' = sent
          ELSE /\ sent' = Append(sent, m)
               /\ UNCHANGED << response_started, viewCount, flowLog >>
  /\ UNCHANGED << config, pc, pending, outcome, flowState, flowMadeBy, yields,
                  closeCount, sink, appOutcome, sinkErr, msg, view, calls, exc,
                  injected >>

NextConcurrent == Next \/ InterleavedSend

SpecConcurrent == Init /\ [][NextConcurrent]_vars

\* ================================================================== claims
AppCall == Call("app", AppSink)
ResponseCalls == SelectSeq(calls, LAMBDA c : c.callee # "app")
AppStarted == \E i \in DOMAIN appSent : appSent[i].type = StartType
FlowLogStartsWith(prefix) ==
  /\ Len(flowLog) >= Len(prefix)
  /\ SubSeq(flowLog, 1, Len(prefix)) = prefix
\* The body of `async with` was left with result r, or __call__ ended with it.
EndsWith(r) ==
  /\ pc \in {"aexit", "done"}
  /\ pc = "aexit" => pending = r
  /\ pc = "done" => outcome = r

\* C1 (early response): once the flow's first yield gave a response, the inner
\* application is never called, that response alone is called with the
\* original scope, receive and send, only its messages reach the downstream
\* sink, and __call__ returns.
C1_EarlyResponse ==
  (scopeType = "http" /\ Len(yields) >= 1 /\ yields[1] \in Responses) =>
    /\ calls = << [callee |-> yields[1], scope |-> scopeType,
                   receive |-> "receive", send |-> "send"] >>
    /\ appSent = <<>>
    /\ appOutcome = Running
    /\ sink = "none"
    /\ pc \in {"early_send", "aexit", "done"}
    /\ pc = "early_send" => sent = <<>>
    /\ pc # "early_send" => (sent = ResponseMessages(yields[1]) /\ EndsWith(Returned))

C1_Witness ==
  /\ pc = "done"
  /\ yields = << "R1" >>
  /\ outcome = Returned
  /\ sent = ResponseMessages("R1")

\* C2 (error recovery): when the first yield was empty, the application raised
\* E with no start message handed to wrapped_send, and the flow answered the
\* injected E by yielding response R, then R and no other response is called
\* with the original send, its messages are the only response messages
\* downstream, and __call__ returns instead of raising.
C2_ErrorRecovery ==
  ( /\ scopeType = "http"
    /\ FlowLogStartsWith(<< "anext", "yield", "athrow", "yield" >>)
    /\ yields[1] = None
    /\ yields[2] \in Responses
    /\ appOutcome.tag = "raise"
    /\ ~AppStarted ) =>
    /\ injected = << appOutcome.err >>
    /\ ResponseCalls = << [callee |-> yields[2], scope |-> scopeType,
                           receive |-> "receive", send |-> "send"] >>
    /\ pc \in {"recover_send", "aexit", "done"}
    /\ pc # "recover_send" =>
         /\ EndsWith(Returned)
         /\ SelectSeq(sent, LAMBDA m : m.type = StartType \/ m.resp # "app")
              = ResponseMessages(yields[2])

C2_Witness ==
  /\ pc = "done"
  /\ yields = << None, "R2" >>
  /\ injected = << Err("E1") >>
  /\ outcome = Returned
  /\ sent = << BodyMsg("app") >> \o ResponseMessages("R2")

\* C3 (post-start failure): when the application handed a start message to
\* wrapped_send and afterwards raised E, no exception is thrown into the
\* flow, no response is called, and __call__ raises E itself.
C3_PostStartFailure ==
  (scopeType = "http" /\ appOutcome.tag = "raise" /\ AppStarted) =>
    /\ injected = <<>>
    /\ \A i \in DOMAIN flowLog : flowLog[i] # "athrow"
    /\ calls = << AppCall >>
    /\ pc \in {"app_raised", "aexit", "done"}
    /\ pc # "app_raised" => EndsWith(appOutcome)

C3_Witness ==
  /\ pc = "done"
  /\ outcome = Raised(Err("E1"))
  /\ flowLog = << "anext", "yield", "asend", "stop", "aclose" >>
  /\ Len(sent) = 1
  /\ sent[1].type = StartType

\* C4 (single-yield enforcement, as claimed): when the flow, resumed with the
\* view on the first start message, yields again, __call__ never returns
\* normally, whatever the application does with the RuntimeError its sink
\* call raised, and no response is called.
C4_SecondYieldIsFatal ==
  (scopeType = "http" /\ FlowLogStartsWith(<< "anext", "yield", "asend", "yield" >>)) =>
    /\ ResponseCalls = <<>>
    /\ pc = "done" => outcome.tag = "raise"

\* C5 (header merge): the view made for the first start message has the
\* message's status and no headers; when the flow has set headers H on it and
\* ended, the start message sent downstream keeps its status and carries the
\* headers (O without the entries whose name, case ignored, is in H) union H.
C5_Step ==
  /\ (pc = "wrapped_send" /\ msg.type = StartType /\ viewCount = 0) =>
       /\ pc' = "asend"
       /\ view' = [status |-> msg.status, headers |-> <<>>]
  /\ (pc = "merge" /\ viewCount = 1) =>
       LET O == msg.headers
           H == view.headers
           out == sent'[Len(sent')]
       IN /\ Len(sent') = Len(sent) + 1
          /\ out.type = StartType
          /\ out.status = msg.status
          /\ Range(out.headers) =
               {e \in Range(O) : Lower(e[1]) \notin Names(H)} \cup Range(H)

C5_HeaderMerge == [][C5_Step]_vars

C5_Witness ==
  /\ pc = "app"
  /\ viewCount = 1
  /\ appSent = << StartMsg(200, << <<"b", "1">>, <<"A", "1">>, <<"a", "3">> >>, "app") >>
  /\ sent = << StartMsg(200, << <<"b", "1">>, <<"a", "2">> >>, "app") >>

\* C6 (cleanup): the flow's aclose() is never called twice, and whenever a
\* flow was made it has been called once by the time __call__ returns or
\* raises, on every exit path.
C6_Cleanup ==
  /\ closeCount <= 1
  /\ flowMadeBy = "none" => (closeCount = 0 /\ flowState = "none")
  /\ (flowMadeBy # "none" /\ outcome.tag # "none") =>
       (closeCount = 1 /\ flowState = "closed" /\ flowLog[Len(flowLog)] = "aclose")

C6_Witness ==
  /\ pc = "done"
  /\ closeCount = 1
  /\ outcome = Raised(YieldOnceError)
  /\ flowLog = << "anext", "yield", "asend", "yield", "aclose" >>

\* C7 (no-response enforcement): when the first yield was empty and the
\* application returned without handing a start message to wrapped_send,
\* __call__ raises RuntimeError("No response returned.") and throws nothing
\* into the flow.
C7_NoResponse ==
  (scopeType = "http" /\ appOutcome = Returned /\ ~AppStarted) =>
    /\ yields = << None >>
    /\ injected = <<>>
    /\ \A i \in DOMAIN flowLog : flowLog[i] # "athrow"
    /\ ResponseCalls = <<>>
    /\ EndsWith(Raised(NoResponseError))

C7_Witness ==
  /\ pc = "done"
  /\ outcome = Raised(NoResponseError)
  /\ appOutcome = Returned
  /\ sent = << BodyMsg("app") >>

\* C8 (user-supplied flow producer, as claimed): when a dispatch function was
\* given to __init__, the flow of an http request is made by that function.
C8_SuppliedDispatchMakesFlow ==
  (dispatchArg /\ scopeType = "http" /\ pc # "call") =>
    flowMadeBy = "dispatch argument"

\* C9 (pass-through): for a request that is not http the application is called
\* once with the original scope, receive and send, no flow is made, and the
\* messages downstream and the outcome are the application's own.
C9_PassThrough ==
  scopeType # "http" =>
    /\ flowState = "none" /\ flowMadeBy = "none" /\ flowLog = <<>>
    /\ closeCount = 0 /\ viewCount = 0 /\ ~response_started
    /\ pc \in {"call", "passthrough", "done"}
    /\ pc = "call" => calls = <<>>
    /\ pc # "call" => calls = << [callee |-> "app", scope |-> scopeType,
                                  receive |-> "receive", send |-> "send"] >>
    /\ sent = appSent
    /\ outcome = appOutcome
    /\ pc = "done" => outcome.tag # "none"

C9_Witness ==
  /\ scopeType = "websocket"
  /\ pc = "done"
  /\ Len(sent) = 2
  /\ outcome = Raised(Err("E1"))

\* C10 (swallowed error): when the application raised E with no start message
\* handed to wrapped_send and the flow answered the injected E by ending or
\* by yielding None, __call__ raises the RuntimeError that names E and no
\* response is called.
C10_SwallowedError ==
  ( /\ scopeType = "http"
    /\ appOutcome.tag = "raise"
    /\ ~AppStarted
    /\ \/ FlowLogStartsWith(<< "anext", "yield", "athrow", "stop" >>)
       \/ /\ FlowLogStartsWith(<< "anext", "yield", "athrow", "yield" >>)
          /\ yields[2] = None ) =>
    /\ injected = << appOutcome.err >>
    /\ ResponseCalls = <<>>
    /\ \A i \in DOMAIN sent : sent[i].type # StartType /\ sent[i].resp = "app"
    /\ EndsWith(Raised(
         [kind |-> "RuntimeError: dispatch() handled exception, but no response was returned",
          of |-> appOutcome.err.kind]))

C10_Witness ==
  /\ pc = "done"
  /\ yields = << None, None >>
  /\ injected = << Err("E2") >>
  /\ outcome.err.of = "E2"
  /\ outcome.tag = "raise"

\* C11 (unhandled injected error): when the application raised E with no
\* start message handed to wrapped_send and the flow let the injected E leave
\* it, __call__ raises E itself and no response is called.
C11_UnhandledInjectedError ==
  ( /\ scopeType = "http"
    /\ appOutcome.tag = "raise"
    /\ ~AppStarted
    /\ FlowLogStartsWith(<< "anext", "yield", "athrow", "reraise" >>) ) =>
    /\ injected = << appOutcome.err >>
    /\ ResponseCalls = <<>>
    /\ \A i \in DOMAIN sent : sent[i].type # StartType /\ sent[i].resp = "app"
    /\ EndsWith(appOutcome)

C11_Witness ==
  /\ pc = "done"
  /\ outcome = Raised(Err("E1"))
  /\ injected = << Err("E1") >>
  /\ flowLog = << "anext", "yield", "athrow", "reraise", "aclose" >>

\* C12 (cleanup under cancellation): with the task cancelled at any await
\* while a flow exists, aclose() is still never called twice, has been called
\* once by the time __call__ ends, and no cancellation (nor any other
\* exception that is no Exception) is ever thrown into the flow.
C12_CleanupUnderCancellation ==
  /\ closeCount <= 1
  /\ (flowMadeBy # "none" /\ outcome.tag # "none") =>
       (closeCount = 1 /\ flowState = "closed")
  /\ outcome.tag # "none" => pc = "done"
  /\ \A i \in DOMAIN injected : injected[i] \notin BaseErrors \cup {Cancelled}

C12_Witness ==
  /\ pc = "done"
  /\ outcome = Raised(Cancelled)
  /\ closeCount = 1
  /\ flowLog = << "anext", "yield", "asend", "cancelled", "aclose" >>

\* C13 (single handshake, as claimed): whatever messages the application
\* hands to wrapped_send, one Response View is made, for the first start
\* message, and the flow is resumed with a view at most once; a later start
\* message makes no view and does not resume the flow.
C13_SingleHandshake ==
  scopeType = "http" =>
    /\ viewCount <= 1
    /\ Cardinality({i \in DOMAIN flowLog : flowLog[i] = "asend"}) <= 1
    /\ (AppStarted /\ pc # "wrapped_send") => viewCount = 1

\* C14 (handshake before forward, as claimed): a start message of the
\* application is downstream only when the flow's resumption with the view of
\* the first start message has ended with the flow terminating; if that
\* resumption ended in an error, no start message of the application is
\* downstream at all.
C14_NoStartUnlessFirstHandshakeEnded ==
  (scopeType = "http"
     /\ \E i \in DOMAIN sent : sent[i].type = StartType /\ sent[i].resp = "app") =>
    FlowLogStartsWith(<< "anext", "yield", "asend", "stop" >>)

\* C14 (amended): a start message of the application goes downstream only in
\* the forwarding step of wrapped_send, with the flow terminated; the first
\* start message only right after the flow, resumed with its view, has ended,
\* and not at all when that resumption ended in an error.  (A start message
\* the application hands over after catching that error is forwarded.)
C14_Step ==
  ( /\ scopeType = "http"
    /\ Len(sent') > Len(sent)
    /\ sent'[Len(sent')].type = StartType
    /\ sent'[Len(sent')].resp = "app" ) =>
    /\ pc = "merge"
    /\ flowState = "finished"
    /\ sent' = Append(sent, sent'[Len(sent')])
    /\ viewCount = 1 =>
         /\ Len(flowLog) = 4
         /\ flowLog = << "anext", "yield", "asend", "stop" >>

C14_HandshakeBeforeForward == [][C14_Step]_vars

C14_Witness ==
  /\ pc = "app"
  /\ viewCount = 1
  /\ flowLog = << "anext", "yield", "asend", "stop" >>
  /\ Len(sent) = 1
  /\ sent[1].type = StartType
  /\ sent[1].headers = << <<"a", "2">> >>

\* C15 (commit before resume): response_started is set while the flow is
\* being resumed with the view; so when the flow raises F in that resumption
\* and F leaves the application, __call__ raises F itself, throws nothing
\* into the flow and calls no response.
C15_CommitBeforeResume ==
  /\ pc = "asend" => response_started
  /\ ( /\ scopeType = "http"
       /\ appOutcome.tag = "raise"
       /\ appOutcome.err \in FlowErrors ) =>
       /\ response_started
       /\ injected = <<>>
       /\ \A i \in DOMAIN flowLog : flowLog[i] # "athrow"
       /\ ResponseCalls = <<>>
       /\ pc \in {"app_raised", "aexit", "done"}
       /\ pc # "app_raised" => EndsWith(appOutcome)

C15_Witness ==
  /\ pc = "done"
  /\ outcome = Raised(Err("F1"))
  /\ flowLog = << "anext", "yield", "asend", "raise", "aclose" >>
  /\ sent = <<>>

NonStart(s) == SelectSeq(s, LAMBDA m : m.type # StartType /\ m.resp = "app")

\* C16 (non-start pass-through): wrapped_send, given a message that is no
\* start message, appends exactly that message to what the downstream sink
\* received and returns to the application, leaving the flow, the view count
\* and response_started as they were; so the non-start messages downstream
\* are the ones the application handed over, in the same order.
C16_Step ==
  (scopeType = "http" /\ pc = "wrapped_send" /\ msg.type # StartType) =>
    /\ sent' = Append(sent, msg)
    /\ pc' = "app"
    /\ flowState' = flowState /\ flowLog' = flowLog /\ yields' = yields
    /\ viewCount' = viewCount
    /\ response_started' = response_started
    /\ NonStart(sent') = NonStart(appSent')

C16_NonStartPassThrough == [][C16_Step]_vars

C16_Witness ==
  /\ scopeType = "http"
  /\ pc = "app"
  /\ appSent = << BodyMsg("app"), BodyMsg("app") >>
  /\ sent = appSent
  /\ flowLog = << "anext", "yield" >>
  /\ viewCount = 0
  /\ ~response_started

Resumptions == {"anext", "asend", "athrow"}

\* C17 (no concurrent resumption, as claimed): the flow's __anext__, asend or
\* athrow is never called while an earlier one of these calls has not ended,
\* also with interleaved senders.
C17_NoConcurrentResumption ==
  \A i \in DOMAIN flowLog :
    (i < Len(flowLog) /\ flowLog[i] \in Resumptions) => flowLog[i + 1] \notin Resumptions

\* C18 (delivered on success, as claimed): when __call__ returns normally for
\* an http request, the downstream sink has received a start message.
C18_DeliveredOnSuccess ==
  (scopeType = "http" /\ pc = "done" /\ outcome = Returned) =>
    \E i \in DOMAIN sent : sent[i].type = StartType

\* C19 (recovery never follows an application response): a response got by
\* throwing an exception into the flow is called only when the application
\* handed no start message to wrapped_send, and downstream no message of a
\* flow's response ever comes after a start message of the application.
C19_RecoveryOnlyWithoutAppStart ==
  scopeType = "http" =>
    /\ (injected # <<>> /\ ResponseCalls # <<>>) => (~AppStarted /\ ~response_started)
    /\ \A i, j \in DOMAIN sent :
         (i < j /\ sent[i].type = StartType /\ sent[i].resp = "app") =>
           sent[j].resp = "app"

C19_Witness ==
  /\ pc = "done"
  /\ injected = << Err("E2") >>
  /\ appSent = <<>>
  /\ Len(ResponseCalls) = 1
  /\ sent = ResponseMessages("R1")

\* The value of the yield logged at position i of flowLog.
YieldAt(i) == yields[Cardinality({j \in 1..i : flowLog[j] = "yield"})]

\* C20 (no resumption after a yielded response): once the flow has yielded a
\* response at its first yield or in answer to a thrown exception, nothing
\* but aclose() is called on it any more, that response alone is called, with
\* the original send, no Response View exists in the request and the
\* response's messages reach the downstream sink as the response sent them;
\* and a flow is never both resumed with a view and thrown an exception.
C20_NoResumptionAfterResponse ==
  scopeType = "http" =>
    /\ \A i \in DOMAIN flowLog :
         ( /\ i > 1
           /\ flowLog[i] = "yield"
           /\ flowLog[i - 1] \in {"anext", "athrow"}
           /\ YieldAt(i) \in Responses ) =>
           /\ \A j \in DOMAIN flowLog : j > i => flowLog[j] = "aclose"
           /\ ResponseCalls = << [callee |-> YieldAt(i), scope |-> scopeType,
                                  receive |-> "receive", send |-> "send"] >>
           /\ viewCount = 0
           /\ SelectSeq(sent, LAMBDA m : m.resp # "app")
                \in {<<>>, ResponseMessages(YieldAt(i))}
    /\ ~ ( /\ \E i \in DOMAIN flowLog : flowLog[i] = "asend"
           /\ \E i \in DOMAIN flowLog : flowLog[i] = "athrow" )

C20_Witness ==
  /\ pc = "done"
  /\ yields = << None, "R1" >>
  /\ injected = << Err("E1") >>
  /\ flowLog = << "anext", "yield", "athrow", "yield", "aclose" >>
  /\ viewCount = 0
  /\ sent = ResponseMessages("R1")

====
